---- MODULE Spec2Model ----
(***************************************************************************)
(* Model of the Active Directory utility: the LDAPClient class            *)
(* (ldapclient.py), its structured audit logger (logger_setup.py) and the *)
(* MainWindow handlers (main.py).                                         *)
(***************************************************************************)
EXTENDS Integers, Sequences, FiniteSets, TLC

\* ------------------------------------------------------------------ bounds
\* Number of MainWindow handler calls explored in one behaviour.
MaxOps == 5

\* Number of LDAPClient calls explored in one behaviour.
MaxClientOps == 4

\* ------------------------------------------------------------ input domains
Groups == {"G", "H"}
UserDNs == {"CN=u"}
Actors == {"alice"}
Targets == {"dc1", ""}
\* getpass.getuser()
OsUser == "osuser"

\* What the directory server would answer to a bind, were it asked.
BindAnswers ==
  { "bound", "invalidCredentials", "LDAPBindError", "LDAPSocketOpenError" }

\* What the directory server would answer to the modify, were it asked.
ClientModifyAnswers == { "success", "entryAlreadyExists" }

\* Lines the operator can type at the confirmation prompt, as character
\* sequences.
Answers ==
  { <<"y">>, <<"Y">>, <<" ", "y", " ">>, <<"n">>, <<>>, <<"y", "e", "s">> }

\* States of sensitive_groups.json when the client is constructed.
Files ==
  { [kind |-> "missing", groups |-> {}],
    [kind |-> "bad_json", groups |-> {}],
    [kind |-> "other_error", groups |-> {}],
    [kind |-> "no_key", groups |-> {}],
    \* valid JSON whose top level is a list, not an object
    [kind |-> "top_level_list", groups |-> {"G"}],
    \* {"protected_groups": null}
    [kind |-> "null_value", groups |-> {}],
    \* {"protected_groups": {"G": true}}
    [kind |-> "dict_value", groups |-> {"G"}] }
  \cup { [kind |-> "ok", groups |-> g] : g \in SUBSET Groups }

VARIABLES
  protected_groups,  \* LDAPClient.protected_groups
  connected,         \* LDAPClient._connected
  connection,        \* LDAPClient.connection
  audit,             \* records emitted through logger_setup.logger, in order
  pc,                \* position of the LDAPClient caller: idle / await_input
  call,              \* the current (or last) LDAPClient call and what it did
  file,              \* sensitive_groups.json as found at construction
  nOps,              \* number of calls started
  win,               \* MainWindow: connection, status label, widgets, config
  logged,            \* records the last handler call emitted through main.py's logger
  hcall,             \* the last MainWindow handler call and what it did
  program,           \* which entry point this process runs
  th,                \* threaded host: each thread's position in its LDAPClient call
  clients,           \* threaded host: the _connected flag of each client
  lock,              \* threaded host: holder of each log handler's lock
  sink,              \* threaded host: what has been written to each handler's stream
  sink_ok            \* threaded host: whether writes to each stream succeed

client_vars == << protected_groups, connected, connection, audit, pc, call, file >>
window_vars == << win, logged, hcall >>
host_vars == << th, clients, lock, sink, sink_ok >>
vars == << protected_groups, connected, connection, audit, pc, call, file, nOps,
           win, logged, hcall, program, host_vars >>

\* ------------------------------------------------------------ logger_setup
DefaultUser == "local_user"
DefaultInfoStatus == "success"
\* log_error with a default status outside the four statuses.
DefaultErrorStatus_error == "error"

DefaultErrorStatus == "failure"

\* logger.info(message, extra=...) as rendered by JsonFormatter.format
log_info(action, obj, message, status, user) ==
  [ action |-> action, object |-> obj, status |-> status, user |-> user,
    level |-> "INFO", message |-> message ]

\* The record emitted through logger.warning instead of logger.error.
log_error_as_warning(action, obj, message, status, user) ==
  [ action |-> action, object |-> obj, status |-> status, user |-> user,
    level |-> "WARNING", message |-> message ]

\* logger.error(message, extra=...) as rendered by JsonFormatter.format
log_error(action, obj, message, status, user) ==
  [ action |-> action, object |-> obj, status |-> status, user |-> user,
    level |-> "ERROR", message |-> message ]

\* ------------------------------------------------------------ string helpers
IsSpace(c) == c = " "

LowerChar(c) ==
  CASE c = "Y" -> "y"
    [] c = "N" -> "n"
    [] OTHER -> c

\* str.lower()
Lower(s) == [ i \in 1..Len(s) |-> LowerChar(s[i]) ]

RECURSIVE LStrip(_)
LStrip(s) == IF s # <<>> /\ IsSpace(Head(s)) THEN LStrip(Tail(s)) ELSE s

RECURSIVE RStrip(_)
RStrip(s) ==
  IF s # <<>> /\ IsSpace(s[Len(s)]) THEN RStrip(SubSeq(s, 1, Len(s) - 1)) ELSE s

\* str.strip()
Strip(s) == RStrip(LStrip(s))

\* A prompt that goes ahead unless the answer is a plain "n".
Declined_defaultAllow(answer) == Lower(Strip(answer)) = <<"n">>

\* confirmation != "y" after input().strip().lower()
Declined(answer) == Lower(Strip(answer)) # <<"y">>

\* --------------------------------------------------------------- MainWindow
\* What the directory answers to Connection(..., auto_bind=True): bound, not
\* bound with a result description, or an exception.
WinBindAnswers ==
  { "bound", "invalidCredentials", "LDAPBindError", "LDAPSocketOpenError",
    "LDAPException", "Exception" }

\* What connection.unbind() does.
UnbindAnswers == { "ok", "raises" }

\* What connection.modify() does: a result description, or an exception.
ModifyAnswers == { "success", "entryAlreadyExists", "LDAPException", "Exception" }

\* Entries a directory search can return: sAMAccountName, cn, distinguishedName.
Entry1 == [ sam |-> "user1", cn |-> "User One", dn |-> "CN=User One" ]
Entry2 == [ sam |-> "", cn |-> "User Two", dn |-> "CN=User Two" ]

\* What connection.search() does: entries, a failure description, an exception.
SearchAnswers ==
  { [ kind |-> "success", entries |-> <<>> ],
    [ kind |-> "success", entries |-> << Entry1, Entry2 >> ],
    [ kind |-> "operationsError", entries |-> <<>> ],
    [ kind |-> "LDAPException", entries |-> <<>> ] }

\* Texts of the domain combo box, the credential fields and the search field.
Domains == { "dc1", "" }
Credentials == { "user", "" }
Queries == { "smith", "" }

\* config.json: ad_settings.target_group_dn and ad_settings.base_dn
TargetGroupDNs == { "CN=TestGroup", "" }
BaseDNs == { "DC=example", "" }

\* logger.info / logger.warning / logger.error of main.py
app_info(message) == [ level |-> "INFO", message |-> message, detail |-> "-" ]
app_warning(message) == [ level |-> "WARNING", message |-> message, detail |-> "-" ]
app_error(message, detail) == [ level |-> "ERROR", message |-> message, detail |-> detail ]

\* Bookkeeping of one handler call: the connection it found, the directory
\* calls it made and how it ended.
NoHCall ==
  [ kind |-> "none", domain |-> "-", bind |-> "-", held |-> "None",
    binds |-> 0, unbinds |-> 0, searches |-> 0, modifies |-> 0, modify |-> "-",
    outcome |-> "-" ]

\* MainWindow.__init__
WindowInit ==
  /\ \E tg \in TargetGroupDNs, bd \in BaseDNs :
       win = [ connection |-> "None",
               status_label |-> "Status: Not connected",
               connect_btn |-> "Connect",
               search_enabled |-> FALSE,
               add_group_btn |-> FALSE,
               results |-> <<>>,
               selected |-> 0,
               target_group_dn |-> tg,
               base_dn |-> bd ]
  /\ logged = << app_info("File logging configured"),
                 app_info("GUI started: Active Directory Utility") >>
  /\ hcall = NoHCall

\* No MainWindow exists in a process that only uses LDAPClient.
WindowAbsent ==
  /\ win = [ connection |-> "None",
             status_label |-> "-",
             connect_btn |-> "-",
             search_enabled |-> FALSE,
             add_group_btn |-> FALSE,
             results |-> <<>>,
             selected |-> 0,
             target_group_dn |-> "",
             base_dn |-> "" ]
  /\ logged = <<>>
  /\ hcall = NoHCall

\* A handler call starts.
HStart(kind) ==
  [ NoHCall EXCEPT !.kind = kind, !.held = win.connection ]

\* A disconnect that leaves the window connected again.
Disconnected_reconnects(w) ==
  [ w EXCEPT !.connection = "bound", !.status_label = "Status: Connected" ]

\* The widget updates after a successful unbind (on_connect, on_domain_changed).
Disconnected(w) ==
  [ w EXCEPT !.connection = "None",
             !.status_label = "Status: Disconnected",
             !.search_enabled = FALSE,
             !.add_group_btn = FALSE,
             !.results = <<>>,
             !.selected = 0 ]

\* on_connect, the branch taken while a bound connection is held. When unbind
\* raises, the connection object is kept and may or may not still be bound.
OnConnectDisconnect(unbind, stillBound) ==
  /\ win.connection = "bound"
  /\ IF unbind = "ok"
     THEN /\ win' = Disconnected(win)
          /\ logged' = << app_info("Disconnected from AD.") >>
          /\ hcall' = [ HStart("on_connect") EXCEPT !.unbinds = 1, !.outcome = "disconnected" ]
     ELSE /\ win' = [ win EXCEPT !.status_label = "Status: Connection error",
                                 !.connection = IF stillBound THEN "bound" ELSE "unbound" ]
          /\ logged' = << app_error("Error disconnecting", "unbind error") >>
          /\ hcall' = [ HStart("on_connect") EXCEPT !.unbinds = 1,
                                                    !.outcome = "disconnect_error" ]

\* The status label, message box title and log message on_connect uses for
\* each way the bind can fail.
ConnectFailure(bind) ==
  CASE bind = "LDAPBindError" ->
         [ label |-> "Status: Authentication failed", kind |-> "Authentication Failed",
           message |-> "LDAP Bind Error during connection" ]
    [] bind = "LDAPSocketOpenError" ->
         [ label |-> "Status: Server unreachable", kind |-> "Server Unreachable",
           message |-> "LDAP Socket Open Error during connection" ]
    [] bind = "LDAPException" ->
         [ label |-> "Status: Connection error", kind |-> "Connection Error",
           message |-> "An LDAP exception occurred during connection" ]
    [] bind = "Exception" ->
         [ label |-> "Status: Connection error", kind |-> "Connection Error",
           message |-> "An unexpected error occurred during connection" ]
    [] OTHER ->
         [ label |-> "Status: Connection failed", kind |-> "Connection Failed",
           message |-> "Connection failed" ]

\* The refusal is not logged.
MissingInputLogged_none == <<>>

\* The record on_connect logs when a field is empty.
MissingInputLogged ==
  << app_warning("Connection attempt failed: Missing input fields.") >>

\* The connection is taken as bound whatever the bind answered.
Bound_always(bind) == TRUE

\* on_connect: if conn.bound
Bound(bind) == bind = "bound"

\* An on_connect that binds again after its first attempt.
BindAttempts_retry == 1 + 1

\* on_connect builds one Connection with auto_bind=True: one bind attempt.
BindAttempts == 1

\* on_add_to_group calls connection.modify once.
ModifyAttempts == 1

\* on_connect, the branch taken while no bound connection is held.
OnConnectConnect(domain, username, password, bind) ==
  /\ win.connection # "bound"
  /\ LET attempt == app_info("Attempting to connect") IN
     IF domain = "" \/ username = "" \/ password = ""
     THEN /\ win' = win
          /\ logged' =
               << attempt >> \o MissingInputLogged
          /\ hcall' = [ HStart("on_connect") EXCEPT !.domain = domain, !.outcome = "Input Error" ]
     ELSE IF Bound(bind)
     THEN /\ win' = [ win EXCEPT !.connection = "bound",
                                 !.status_label = "Status: Connected",
                                 !.search_enabled = TRUE ]
          /\ logged' = << attempt, app_info("Successfully connected") >>
          /\ hcall' = [ HStart("on_connect") EXCEPT !.domain = domain, !.binds = BindAttempts, !.bind = bind,
                                                    !.outcome = "connected" ]
     ELSE /\ win' = [ win EXCEPT !.status_label = ConnectFailure(bind).label ]
          /\ logged' =
               << attempt, app_error(ConnectFailure(bind).message, bind) >>
          /\ hcall' = [ HStart("on_connect") EXCEPT !.domain = domain, !.binds = BindAttempts, !.bind = bind,
                                                    !.outcome = ConnectFailure(bind).kind ]

\* MainWindow.on_connect
OnConnect ==
  /\ program = "main"
  /\ nOps < MaxOps
  /\ nOps' = nOps + 1
  /\ \/ \E u \in UnbindAnswers, sb \in BOOLEAN : OnConnectDisconnect(u, sb)
     \/ \E d \in Domains, un \in Credentials, pw \in Credentials, b \in WinBindAnswers :
          OnConnectConnect(d, un, pw, b)
  /\ UNCHANGED << client_vars, program, host_vars >>

\* MainWindow.on_domain_changed
OnDomainChanged(unbind) ==
  /\ program = "main"
  /\ nOps < MaxOps
  /\ nOps' = nOps + 1
  /\ LET selected == app_info("Domain selected") IN
     IF win.connection # "None"
     THEN IF unbind = "ok"
          THEN /\ win' = Disconnected(win)
               /\ logged' = << selected, app_info("Disconnected from AD.") >>
               /\ hcall' = [ HStart("on_domain_changed") EXCEPT !.unbinds = 1,
                                                                !.outcome = "disconnected" ]
          ELSE /\ win' = [ win EXCEPT !.connection = "None",
                                      !.status_label = "Status: Disconnected (Error)" ]
               /\ logged' =
                    << selected, app_error("Error during disconnect", "unbind error") >>
               /\ hcall' = [ HStart("on_domain_changed") EXCEPT !.unbinds = 1,
                                                                !.outcome = "disconnect_error" ]
     ELSE /\ win' = [ win EXCEPT !.status_label = "Status: Selected" ]
          /\ logged' = << selected >>
          /\ hcall' = [ HStart("on_domain_changed") EXCEPT !.outcome = "selected" ]
  /\ UNCHANGED << client_vars, program, host_vars >>

\* The list item on_search adds for a found entry.
ResultItem(e) == [ text |-> IF e.sam # "" THEN e.sam ELSE e.cn, dn |-> e.dn ]

\* A list item that carries no DN ('No users found.' and the like).
Placeholder(text) == [ text |-> text, dn |-> "None" ]

\* Handlers that never find the window not connected.
NotConnected_never(w) == FALSE

\* on_search, on_add_to_group: if not self.connection or not self.connection.bound
NotConnected(w) == w.connection # "bound"

\* MainWindow.on_search
OnSearch(query, answer) ==
  /\ program = "main"
  /\ nOps < MaxOps
  /\ nOps' = nOps + 1
  /\ LET attempt == app_info("Attempting search")
         cleared == [ win EXCEPT !.results = <<>>, !.selected = 0, !.add_group_btn = FALSE ]
         h == HStart("on_search")
     IN IF NotConnected(win)
        THEN /\ win' = [ cleared EXCEPT !.status_label = "Status: Not connected" ]
             /\ logged' =
                  << attempt, app_warning("Search attempted while not connected.") >>
             /\ hcall' = [ h EXCEPT !.outcome = "Not Connected" ]
        ELSE IF query = ""
        THEN /\ win' = [ cleared EXCEPT
                           !.results = << Placeholder("Please enter a search query") >> ]
             /\ logged' =
                  << attempt, app_warning("Search attempted with empty query.") >>
             /\ hcall' = [ h EXCEPT !.outcome = "empty query" ]
        ELSE IF win.base_dn = ""
        THEN /\ win' = cleared
             /\ logged' =
                  << attempt, app_error("Base DN not configured in config.json", "-") >>
             /\ hcall' = [ h EXCEPT !.outcome = "Configuration Error" ]
        ELSE IF answer.kind = "success" /\ answer.entries # <<>>
        THEN /\ win' = [ cleared EXCEPT
                           !.results = [ i \in 1..Len(answer.entries) |->
                                           ResultItem(answer.entries[i]) ] ]
             /\ logged' =
                  << attempt, app_info("Performing LDAP search"),
                     app_info("Found search results") >>
             /\ hcall' = [ h EXCEPT !.searches = 1, !.outcome = "found" ]
        ELSE IF answer.kind = "success"
        THEN /\ win' = [ cleared EXCEPT !.results = << Placeholder("No users found.") >> ]
             /\ logged' =
                  << attempt, app_info("Performing LDAP search"), app_info("No users found") >>
             /\ hcall' = [ h EXCEPT !.searches = 1, !.outcome = "none found" ]
        ELSE /\ win' = cleared
             /\ logged' =
                  << attempt, app_info("Performing LDAP search"),
                     app_error(IF answer.kind = "LDAPException"
                               THEN "An LDAP exception occurred during search"
                               ELSE "LDAP search failed", answer.kind) >>
             /\ hcall' = [ h EXCEPT !.searches = 1,
                             !.outcome = IF answer.kind = "LDAPException"
                                         THEN "Search Error" ELSE "Search Failed" ]
  /\ UNCHANGED << client_vars, program, host_vars >>

\* The selection of results_list changes to row i (0: nothing selected) and
\* MainWindow.on_result_selected runs.
OnResultSelected(i) ==
  /\ program = "main"
  /\ nOps < MaxOps
  /\ nOps' = nOps + 1
  /\ i # win.selected
  /\ IF i # 0
     THEN /\ win' = [ win EXCEPT !.selected = i, !.add_group_btn = TRUE ]
          /\ logged' = << app_info("Result selected") >>
     ELSE /\ win' = [ win EXCEPT !.selected = i, !.add_group_btn = FALSE ]
          /\ logged' = << app_info("No result selected") >>
  /\ hcall' = [ HStart("on_result_selected") EXCEPT !.outcome = "selected" ]
  /\ UNCHANGED << client_vars, program, host_vars >>

\* MainWindow.on_add_to_group
OnAddToGroup(answer) ==
  /\ program = "main"
  /\ nOps < MaxOps
  /\ nOps' = nOps + 1
  /\ LET attempt == app_info("Attempting to add user to group")
         h == HStart("on_add_to_group")
     IN IF win.selected = 0
        THEN /\ win' = win
             /\ logged' =
                  << app_warning("Add to group clicked with no user selected.") >>
             /\ hcall' = [ h EXCEPT !.outcome = "no selection" ]
        ELSE IF win.target_group_dn = ""
        THEN /\ win' = win
             /\ logged' =
                  << app_error("Target Group DN not configured in config.json", "-") >>
             /\ hcall' = [ h EXCEPT !.outcome = "Configuration Error" ]
        ELSE IF NotConnected(win)
        THEN /\ win' = [ win EXCEPT !.status_label = "Status: Not connected" ]
             /\ logged' = << attempt, app_warning("Add to group attempted while not connected.") >>
             /\ hcall' = [ h EXCEPT !.outcome = "Not Connected" ]
        ELSE IF answer = "success"
        THEN /\ win' = [ win EXCEPT !.status_label = "Status: Added to group (success)" ]
             /\ logged' = << attempt, app_info("Successfully added") >>
             /\ hcall' = [ h EXCEPT !.modifies = ModifyAttempts, !.modify = answer, !.outcome = "Success" ]
        ELSE IF answer \in { "LDAPException", "Exception" }
        THEN /\ win' = win
             /\ logged' =
                  << attempt,
                     app_error(IF answer = "LDAPException"
                               THEN "An LDAP exception occurred during add to group operation"
                               ELSE "An unexpected error occurred during add to group operation",
                               answer) >>
             /\ hcall' = [ h EXCEPT !.modifies = ModifyAttempts, !.modify = answer, !.outcome = "Add to Group Error" ]
        ELSE /\ win' = [ win EXCEPT !.status_label = "Status: Add to group failed" ]
             /\ logged' = << attempt, app_error("Failed to add", answer) >>
             /\ hcall' = [ h EXCEPT !.modifies = ModifyAttempts, !.modify = answer, !.outcome = "Add to Group Failed" ]
  /\ UNCHANGED << client_vars, program, host_vars >>

\* --------------------------------------------------------------- LDAPClient
\* Values json.load(f).get("protected_groups", []) can leave in
\* self.protected_groups: a list, a dict (whose `in` tests its keys), or None.
PyList(items) == [ type |-> "list", items |-> items ]

PyDict(keys) == [ type |-> "dict", items |-> keys ]

PyNone == [ type |-> "NoneType", items |-> {} ]

\* Whether `x in value` evaluates at all; on None it raises TypeError.
SupportsIn(value) == value.type # "NoneType"

\* The try/except around the load of sensitive_groups.json in __init__:
\* the protected list and the records logged while loading.
LoadProtected(f) ==
  CASE f.kind = "ok" -> [ groups |-> PyList(f.groups), logged |-> <<>> ]
    [] f.kind = "no_key" -> [ groups |-> PyList({}), logged |-> <<>> ]
    [] f.kind = "null_value" -> [ groups |-> PyNone, logged |-> <<>> ]
    [] f.kind = "dict_value" -> [ groups |-> PyDict(f.groups), logged |-> <<>> ]
    [] f.kind = "missing" ->
         [ groups |-> PyList({}),
           logged |-> << log_error("init", "sensitive_groups.json",
                                   "Sensitive groups file not found. No groups will be protected.",
                                   DefaultErrorStatus, DefaultUser) >> ]
    [] f.kind = "bad_json" ->
         [ groups |-> PyList({}),
           logged |-> << log_error("init", "sensitive_groups.json",
                                   "Error decoding sensitive groups JSON. No groups will be protected.",
                                   DefaultErrorStatus, DefaultUser) >> ]
    [] OTHER ->
         [ groups |-> PyList({}),
           logged |-> << log_error("init", "sensitive_groups.json",
                                   "An unexpected error occurred loading sensitive groups. No groups will be protected.",
                                   DefaultErrorStatus, DefaultUser) >> ]

NoRet == [ ok |-> FALSE, msg |-> "-" ]

\* Bookkeeping of one LDAPClient call: its arguments, the state it found,
\* where its records start in the audit trail, what it asked of the operator
\* and of the directory, and what it returned.
NoCall ==
  [ kind |-> "none", group |-> "-", user_dn |-> "-", user |-> "-",
    target |-> "-", bind |-> "-", modify |-> "-",
    wasConnected |-> FALSE, wasProtected |-> FALSE, start |-> 0,
    prompts |-> 0, answer |-> <<>>, binds |-> 0, modifies |-> 0,
    returned |-> FALSE, ret |-> NoRet, raised |-> "-" ]

\* LDAPClient.__init__
ClientInit ==
  \E f \in Files :
    /\ file = f
    /\ protected_groups = LoadProtected(f).groups
    /\ connected = FALSE
    /\ connection = "None"
    /\ audit = LoadProtected(f).logged
    /\ pc = "idle"
    /\ call = NoCall

\* No LDAPClient is constructed by main.py.
ClientAbsent ==
  /\ file = [ kind |-> "unread", groups |-> {} ]
  /\ protected_groups = PyList({})
  /\ connected = FALSE
  /\ connection = "None"
  /\ audit = <<>>
  /\ pc = "idle"
  /\ call = NoCall

\* LDAPClient.connect(target). bind is what the directory would answer to a
\* bind; connect never asks (the bind is commented out).
Connect(target, bind) ==
  /\ program = "ldapclient"
  /\ pc = "idle"
  /\ nOps < MaxClientOps
  /\ nOps' = nOps + 1
  /\ connected' = TRUE
  /\ audit' = audit \o
       << log_info("connect", target, "Attempting to connect", DefaultInfoStatus, OsUser),
          log_info("connect", target, "Connection established (simulated)", "success", OsUser) >>
  /\ call' = [ NoCall EXCEPT !.kind = "connect", !.target = target, !.bind = bind,
                             !.wasConnected = connected, !.start = Len(audit),
                             !.returned = TRUE,
                             !.ret = [ ok |-> TRUE, msg |-> "Successfully connected (simulated)" ] ]
  /\ UNCHANGED << protected_groups, connection, pc, file >>
  /\ UNCHANGED << window_vars, program, host_vars >>

\* An is_connected() that never reports a connection.
is_connected_stale == FALSE

\* LDAPClient.is_connected(): the value returned
is_connected == connected

\* A call of LDAPClient.is_connected()
IsConnected ==
  /\ program = "ldapclient"
  /\ pc = "idle"
  /\ nOps < MaxClientOps
  /\ nOps' = nOps + 1
  /\ call' = [ NoCall EXCEPT !.kind = "is_connected", !.wasConnected = connected,
                             !.start = Len(audit), !.returned = TRUE,
                             !.ret = [ ok |-> is_connected, msg |-> "-" ] ]
  /\ UNCHANGED << protected_groups, connected, connection, audit, pc, file >>
  /\ UNCHANGED << window_vars, program, host_vars >>

\* get_status with its log_info call left in.
GetStatusLogged_status(status) ==
  << log_info("status", "connection", "Current status", DefaultInfoStatus, OsUser) >>

\* The records get_status emits (its log_info call is commented out).
GetStatusLogged(status) == <<>>

\* LDAPClient.get_status()
GetStatus ==
  /\ program = "ldapclient"
  /\ pc = "idle"
  /\ nOps < MaxClientOps
  /\ nOps' = nOps + 1
  /\ LET status == IF is_connected THEN "Connected" ELSE "No connection" IN
       /\ audit' = audit \o GetStatusLogged(status)
       /\ call' = [ NoCall EXCEPT !.kind = "get_status", !.wasConnected = connected,
                                  !.start = Len(audit), !.returned = TRUE,
                                  !.ret = [ ok |-> is_connected, msg |-> status ] ]
  /\ UNCHANGED << protected_groups, connected, connection, pc, file >>
  /\ UNCHANGED << window_vars, program, host_vars >>

\* The guard left out: no group is ever found protected.
IsProtected_never(group, groups) == FALSE

\* The guard of add_user_to_group: group_dn_or_name in self.protected_groups
IsProtected(group, groups) == group \in groups.items

\* add_user_to_group, lines 144-146: the simulated addition. No connection
\* check and no directory call precede it (both are commented out).
AddTail(user_dn, group, user) ==
  << log_info("addtogroup", group, "Successfully added user (simulated)", "success", user) >>

AddRet == [ ok |-> TRUE, msg |-> "Successfully added user to group (simulated)" ]

\* A decline reported with the words of a failed addition.
CancelRet_asFailure == [ ok |-> FALSE, msg |-> "Add to group failed" ]

CancelRet == [ ok |-> FALSE, msg |-> "Operation cancelled by user" ]

\* add_user_to_group up to the point where it either returns or blocks in
\* input(). modify is what the directory would answer to the modify; the
\* method never asks (the modify is commented out).
AddUserToGroup(user_dn, group, user, modify) ==
  /\ program = "ldapclient"
  /\ pc = "idle"
  /\ nOps < MaxClientOps
  /\ nOps' = nOps + 1
  /\ LET attempt == log_info("addtogroup", group, "Attempting to add user",
                             DefaultInfoStatus, user)
         base == [ NoCall EXCEPT !.kind = "add", !.group = group,
                                 !.user_dn = user_dn, !.user = user,
                                 !.modify = modify,
                                 !.wasConnected = connected,
                                 !.wasProtected = (group \in protected_groups.items),
                                 !.start = Len(audit) ]
     IN IF ~SupportsIn(protected_groups)
        THEN /\ audit' = audit \o << attempt >>
             /\ pc' = "idle"
             /\ call' = [ base EXCEPT !.raised = "TypeError" ]
        ELSE IF IsProtected(group, protected_groups)
        THEN /\ audit' = audit \o
                  << attempt,
                     log_info("addtogroup", group, "Protected group. Requesting confirmation.",
                              "pending_confirmation", user) >>
             /\ pc' = "await_input"
             /\ call' = [ base EXCEPT !.prompts = 1 ]
        ELSE /\ audit' = audit \o << attempt >> \o AddTail(user_dn, group, user)
             /\ pc' = "idle"
             /\ call' = [ base EXCEPT !.returned = TRUE, !.ret = AddRet ]
  /\ UNCHANGED << protected_groups, connected, connection, file >>
  /\ UNCHANGED << window_vars, program, host_vars >>

\* An add_user_to_group that stops protecting a group once its addition has
\* been answered.
AnswerPrompt_unprotects(answer) ==
  /\ program = "ldapclient"
  /\ pc = "await_input"
  /\ pc' = "idle"
  /\ audit' = audit \o AddTail(call.user_dn, call.group, call.user)
  /\ call' = [ call EXCEPT !.answer = answer, !.returned = TRUE, !.ret = AddRet ]
  /\ protected_groups' = [ protected_groups EXCEPT !.items = @ \ { call.group } ]
  /\ UNCHANGED << connected, connection, file, nOps >>
  /\ UNCHANGED << window_vars, program, host_vars >>

\* add_user_to_group from the return of input() to its own return.
AnswerPrompt(answer) ==
  /\ program = "ldapclient"
  /\ pc = "await_input"
  /\ pc' = "idle"
  /\ LET group == call.group
         user == call.user
     IN IF Declined(answer)
        THEN /\ audit' = audit \o
                  << log_info("addtogroup", group, "Operation cancelled by user",
                              "cancelled", user) >>
             /\ call' = [ call EXCEPT !.answer = answer, !.returned = TRUE,
                                      !.ret = CancelRet ]
        ELSE /\ audit' = audit \o
                  << log_info("addtogroup", group, "User confirmed operation for protected group.",
                              DefaultInfoStatus, user) >>
                  \o AddTail(call.user_dn, group, user)
             /\ call' = [ call EXCEPT !.answer = answer, !.returned = TRUE, !.ret = AddRet ]
  /\ UNCHANGED << protected_groups, connected, connection, file, nOps >>
  /\ UNCHANGED << window_vars, program, host_vars >>

\* Exceptions input() can raise instead of returning a line: end of input,
\* or an interrupt from the keyboard.
PromptErrors == { "EOFError", "KeyboardInterrupt" }

\* An add_user_to_group that drops the session when input() raises.
PromptRaises_disconnects(error) ==
  /\ program = "ldapclient"
  /\ pc = "await_input"
  /\ pc' = "idle"
  /\ call' = [ call EXCEPT !.raised = error ]
  /\ connected' = FALSE
  /\ UNCHANGED << protected_groups, connection, audit, file, nOps >>
  /\ UNCHANGED << window_vars, program, host_vars >>

\* add_user_to_group when input() raises: nothing in the method catches it,
\* so the call ends there with the exception.
PromptRaises(error) ==
  /\ program = "ldapclient"
  /\ pc = "await_input"
  /\ pc' = "idle"
  /\ call' = [ call EXCEPT !.raised = error ]
  /\ UNCHANGED << protected_groups, connected, connection, audit, file, nOps >>
  /\ UNCHANGED << window_vars, program, host_vars >>

\* ------------------------------------------------------------ threaded host
\* A host that calls the methods of LDAPClient from several threads. Each
\* thread runs one call, statement by statement; a log_info call
\* hands its record to the two handlers of logger_setup.logger in the order
\* they were added, and logging.Handler.handle writes it under the handler's
\* lock.

Threads == { "t1", "t2" }
Clients == { "c1", "c2" }

\* The protected list every client of the host has loaded.
HostProtected == { "G" }

\* Lines typed at the confirmation prompt.
HostAnswers == { <<"y">>, <<"n">> }

\* logger.addHandler(file_handler); logger.addHandler(console_handler)
Handlers == << "file", "console" >>

HandlerNames == { Handlers[i] : i \in DOMAIN Handlers }

\* A thread that has not made its call yet.
IdleThread ==
  [ pc |-> "idle", called |-> FALSE, client |-> "-", group |-> "-",
    h |-> 1, phase |-> "acquire", n |-> 0, raised |-> FALSE ]

\* The statements of connect and add_user_to_group that call log_info.
LogPcs ==
  { "c_attempt", "c_success",
    "a_attempt", "a_pending", "a_cancelled", "a_confirmed", "a_success" }

\* The statement that follows each log_info call; idle is the return.
AfterLog(at) ==
  CASE at = "c_attempt" -> "c_set"
    [] at = "c_success" -> "idle"
    [] at = "a_attempt" -> "a_test"
    [] at = "a_pending" -> "a_input"
    [] at = "a_cancelled" -> "idle"
    [] at = "a_confirmed" -> "a_success"
    [] OTHER -> "idle"

\* Logger.callHandlers: on to the next handler, or back to the caller of
\* log_info when the last handler is done.
HandlerDone(s) ==
  IF s.h = Len(Handlers)
  THEN [ s EXCEPT !.h = 1, !.phase = "acquire", !.n = @ + 1, !.pc = AfterLog(s.pc) ]
  ELSE [ s EXCEPT !.h = @ + 1, !.phase = "acquire" ]

\* A handler that writes without taking its lock.
LockFree_always(t, h) == TRUE

\* Handler.acquire(): the handler's lock is reentrant.
LockFree(t, h) == lock[h] \in { "free", t }

\* A handler that keeps its lock after the write.
Released_held(t) == t

\* Handler.release()
Released(t) == "free"

\* An emit that lets the exception of a failed write through.
RaisesToCaller_yes == TRUE

\* StreamHandler.emit catches the exception of a failed write and calls
\* handleError, which reports on stderr and returns.
RaisesToCaller == FALSE

\* A stream that is rewound before each write.
StreamWrite_rewound(stream, chunk) == << chunk >>

\* stream.write on a stream opened for appending (FileHandler's default
\* mode 'a') or on the console.
StreamWrite(stream, chunk) == Append(stream, chunk)

\* Handler.handle up to the middle of the write: the lock is taken and the
\* stream written to; a write that fails writes nothing.
EmitBegin(t) ==
  LET s == th[t]
      hn == Handlers[s.h]
  IN /\ program = "threads"
     /\ s.pc \in LogPcs
     /\ s.phase = "acquire"
     /\ LockFree(t, hn)
     /\ IF sink_ok[hn]
        THEN /\ lock' = [ lock EXCEPT ![hn] = t ]
             /\ sink' = [ sink EXCEPT ![hn] =
                            StreamWrite(@, [ t |-> t, n |-> s.n + 1, part |-> "head" ]) ]
             /\ th' = [ th EXCEPT ![t].phase = "write" ]
        ELSE /\ lock' = lock
             /\ sink' = sink
             /\ th' = [ th EXCEPT ![t] =
                          IF RaisesToCaller
                          THEN [ s EXCEPT !.pc = "idle", !.h = 1, !.raised = TRUE ]
                          ELSE HandlerDone(s) ]
     /\ UNCHANGED << clients, sink_ok >>
     /\ UNCHANGED << client_vars, window_vars, nOps, program >>

\* Handler.handle from the middle of the write to the release of the lock.
EmitEnd(t) ==
  LET s == th[t]
      hn == Handlers[s.h]
  IN /\ program = "threads"
     /\ s.pc \in LogPcs
     /\ s.phase = "write"
     /\ sink' = [ sink EXCEPT ![hn] =
                    StreamWrite(@, [ t |-> t, n |-> s.n + 1, part |-> "tail" ]) ]
     /\ lock' = [ lock EXCEPT ![hn] = Released(t) ]
     /\ th' = [ th EXCEPT ![t] = HandlerDone(s) ]
     /\ UNCHANGED << clients, sink_ok >>
     /\ UNCHANGED << client_vars, window_vars, nOps, program >>

\* A thread calls connect on a client.
HostConnect(t, c) ==
  /\ program = "threads"
  /\ th[t].pc = "idle"
  /\ ~th[t].called
  /\ th' = [ th EXCEPT ![t] = [ @ EXCEPT !.pc = "c_attempt", !.called = TRUE, !.client = c,
                                         !.group = "-" ] ]
  /\ UNCHANGED << clients, lock, sink, sink_ok >>
  /\ UNCHANGED << client_vars, window_vars, nOps, program >>

\* connect: self._connected = True
HostSetConnected(t) ==
  /\ program = "threads"
  /\ th[t].pc = "c_set"
  /\ clients' = [ clients EXCEPT ![th[t].client] = TRUE ]
  /\ th' = [ th EXCEPT ![t].pc = "c_success" ]
  /\ UNCHANGED << lock, sink, sink_ok >>
  /\ UNCHANGED << client_vars, window_vars, nOps, program >>

\* A thread calls add_user_to_group on a client.
HostAdd(t, c, g) ==
  /\ program = "threads"
  /\ th[t].pc = "idle"
  /\ ~th[t].called
  /\ th' = [ th EXCEPT ![t] = [ @ EXCEPT !.pc = "a_attempt", !.called = TRUE, !.client = c,
                                         !.group = g ] ]
  /\ UNCHANGED << clients, lock, sink, sink_ok >>
  /\ UNCHANGED << client_vars, window_vars, nOps, program >>

\* add_user_to_group: if group_dn_or_name in self.protected_groups
HostTest(t) ==
  /\ program = "threads"
  /\ th[t].pc = "a_test"
  /\ th' = [ th EXCEPT ![t].pc =
               IF IsProtected(th[t].group, PyList(HostProtected))
               THEN "a_pending" ELSE "a_success" ]
  /\ UNCHANGED << clients, lock, sink, sink_ok >>
  /\ UNCHANGED << client_vars, window_vars, nOps, program >>

\* add_user_to_group: input() returns the line typed.
HostAnswer(t, answer) ==
  /\ program = "threads"
  /\ th[t].pc = "a_input"
  /\ th' = [ th EXCEPT ![t].pc =
               IF Declined(answer) THEN "a_cancelled" ELSE "a_confirmed" ]
  /\ UNCHANGED << clients, lock, sink, sink_ok >>
  /\ UNCHANGED << client_vars, window_vars, nOps, program >>

\* The host before any call; a write to either stream may be failing.
HostInit ==
  /\ th = [ t \in Threads |-> IdleThread ]
  /\ clients = [ c \in Clients |-> FALSE ]
  /\ lock = [ h \in HandlerNames |-> "free" ]
  /\ sink = [ h \in HandlerNames |-> <<>> ]
  /\ sink_ok \in [ HandlerNames -> BOOLEAN ]

\* The process is not a threaded host.
HostAbsent ==
  /\ th = [ t \in Threads |-> IdleThread ]
  /\ clients = [ c \in Clients |-> FALSE ]
  /\ lock = [ h \in HandlerNames |-> "free" ]
  /\ sink = [ h \in HandlerNames |-> <<>> ]
  /\ sink_ok = [ h \in HandlerNames |-> TRUE ]

\* ------------------------------------------------------------ specification
\* The process runs either a caller of LDAPClient (ldapclient.py with
\* logger_setup.py) or the GUI (main.py), which does not use LDAPClient.
Init ==
  /\ nOps = 0
  /\ HostAbsent
  /\ \/ program = "ldapclient" /\ ClientInit /\ WindowAbsent
     \/ program = "main" /\ ClientAbsent /\ WindowInit

\* The process is a host that calls LDAPClient from several threads.
HostSpecInit ==
  /\ nOps = 0
  /\ program = "threads"
  /\ ClientAbsent
  /\ WindowAbsent
  /\ HostInit

ClientNext ==
  \/ \E t \in Targets, b \in BindAnswers : Connect(t, b)
  \/ IsConnected
  \/ GetStatus
  \/ \E u \in UserDNs, g \in Groups, a \in Actors, m \in ClientModifyAnswers :
       AddUserToGroup(u, g, a, m)
  \/ \E ans \in Answers : AnswerPrompt(ans)
  \/ \E e \in PromptErrors : PromptRaises(e)

WindowNext ==
  \/ OnConnect
  \/ \E u \in UnbindAnswers : OnDomainChanged(u)
  \/ \E q \in Queries, a \in SearchAnswers : OnSearch(q, a)
  \/ \E i \in 0..Len(win.results) : OnResultSelected(i)
  \/ \E m \in ModifyAnswers : OnAddToGroup(m)

Next == ClientNext \/ WindowNext

Spec == Init /\ [][Next]_vars

HostNext ==
  \/ \E t \in Threads, c \in Clients : HostConnect(t, c)
  \/ \E t \in Threads, c \in Clients, g \in Groups : HostAdd(t, c, g)
  \/ \E t \in Threads : HostSetConnected(t)
  \/ \E t \in Threads : HostTest(t)
  \/ \E t \in Threads, ans \in HostAnswers : HostAnswer(t, ans)
  \/ \E t \in Threads : EmitBegin(t)
  \/ \E t \in Threads : EmitEnd(t)

SpecHost == HostSpecInit /\ [][HostNext]_vars

\* Every process the model describes.
SpecAll == (Init \/ HostSpecInit) /\ [][Next \/ HostNext]_vars

\* ------------------------------------------------------------------ claims
\* The audit records of the current (or last) LDAPClient call.
CallEvents == SubSeq(audit, call.start + 1, Len(audit))

\* How many records of a sequence carry one of the given statuses.
CountStatus(events, statuses) ==
  Cardinality({ i \in DOMAIN events : events[i].status \in statuses })

TerminalStatuses == { "success", "failure", "cancelled" }

\* The typed lines that approve a confirmation.
ApprovingAnswers == { <<"y">>, <<"Y">>, <<" ", "y", " ">> }

\* The call has reached the addition itself (here: the simulated one).
AdditionReached ==
  \/ call.modifies > 0
  \/ \E i \in DOMAIN CallEvents :
       CallEvents[i].message = "Successfully added user (simulated)"

\* C1: in add_user_to_group on a protected group the operator is asked, and
\* has approved, before the addition is carried out; on an unprotected group
\* the operator is never asked.
C1_ConfirmationBeforeAddition ==
  call.kind = "add" =>
    /\ call.wasProtected =>
         /\ call.prompts = 1
         /\ AdditionReached => (call.returned /\ call.answer \in ApprovingAnswers)
    /\ ~call.wasProtected => (call.prompts = 0 /\ pc = "idle")

C1_Witness ==
  /\ call.kind = "add"
  /\ call.wasProtected
  /\ call.returned
  /\ call.ret.ok
  /\ AdditionReached

\* C2: a declined confirmation makes no modify call and leaves exactly one
\* cancelled record and no success or failure record for the operation.
C2_DeclinedOnlyCancelled ==
  ( /\ call.kind = "add"
    /\ call.returned
    /\ call.prompts = 1
    /\ call.answer \notin ApprovingAnswers )
  => /\ call.modifies = 0
     /\ CountStatus(CallEvents, { "cancelled" }) = 1
     /\ CountStatus(CallEvents, { "success", "failure" }) = 0

\* The status that matches what a call returned.
ResultStatus(ret) ==
  IF ret.ok THEN "success"
  ELSE IF ret = CancelRet THEN "cancelled" ELSE "failure"

\* C3: a returned connect or add_user_to_group has recorded exactly one
\* record with a terminal status, and that status matches the result.
C3_ExactlyOneTerminalEvent ==
  ( call.kind \in { "connect", "add" } /\ call.returned )
  => /\ CountStatus(CallEvents, TerminalStatuses) = 1
     /\ CountStatus(CallEvents, { ResultStatus(call.ret) }) = 1

\* Handler outcomes that are successes; every other outcome is a refusal or
\* a failure.
SuccessOutcomes == { "connected", "disconnected", "Success" }

\* Log messages that announce an attempt rather than state an outcome.
AttemptMessages == { "Attempting to connect", "Attempting to add user to group" }

\* A record of main.py's log that states the given handler outcome.
StatesOutcome(rec, outcome) ==
  IF outcome \in SuccessOutcomes
  THEN rec.level = "INFO" /\ rec.message \notin AttemptMessages
  ELSE rec.level \in { "WARNING", "ERROR" }

\* The status that matches how a call ended: what it returned, or failure
\* when it raised.
EndStatus == IF call.returned THEN ResultStatus(call.ret) ELSE "failure"

\* C4: every connect / add-user-to-group call records its terminal outcome,
\* also when it ends before any directory call: in LDAPClient a record
\* after the attempt record carries the status of how the call ended; in
\* MainWindow the handler logs a record stating how it ended.
C4_OutcomeAlwaysRecorded ==
  /\ ( call.kind \in { "connect", "add" } /\ (call.returned \/ call.raised # "-") )
     => \E i \in 2..Len(CallEvents) : CallEvents[i].status = EndStatus
  /\ hcall.kind \in { "on_connect", "on_add_to_group" }
     => \E i \in DOMAIN logged : StatesOutcome(logged[i], hcall.outcome)

C4_Witness ==
  /\ hcall.kind = "on_add_to_group"
  /\ hcall.outcome = "Not Connected"
  /\ hcall.modifies = 0

\* C5: add_user_to_group on an unprotected group while not connected returns
\* a NotConnected error, asks nothing and calls nothing.
C5_NotConnectedRefused ==
  ( /\ call.kind = "add"
    /\ call.returned
    /\ ~call.wasProtected
    /\ ~call.wasConnected )
  => /\ ~call.ret.ok
     /\ call.ret.msg = "Not connected"
     /\ call.prompts = 0
     /\ call.modifies = 0

\* C6: when the directory answers the bind with not bound and a description,
\* connect returns a failure, the client is not connected and exactly one
\* failure record is in the audit trail for the call.
C6_BindFailureReported ==
  ( /\ call.kind = "connect"
    /\ call.returned
    /\ call.bind = "invalidCredentials" )
  => /\ ~call.ret.ok
     /\ ~connected
     /\ CountStatus(CallEvents, { "failure" }) = 1

\* C7: the records of one add_user_to_group call are, in order, the attempt,
\* a pending_confirmation (protected groups only) and exactly one terminal
\* record; no success record precedes the pending_confirmation, and an
\* approved call ends in success.
C7_EventOrder ==
  ( call.kind = "add" /\ call.returned )
  => LET ev == CallEvents
         n == Len(ev)
     IN /\ CountStatus(ev, TerminalStatuses) = 1
        /\ ev[n].status \in TerminalStatuses
        /\ call.wasProtected =>
             \E p \in 1..n :
               /\ ev[p].status = "pending_confirmation"
               /\ \A j \in 1..(p - 1) : ev[j].status # "success"
        /\ ~call.wasProtected => CountStatus(ev, { "pending_confirmation" }) = 0
        /\ ( call.wasProtected /\ call.answer \in ApprovingAnswers )
             => ( call.ret.ok /\ ev[n].status = "success" )

\* C8: a get_status or is_connected call records nothing and changes neither
\* the connected flag, the stored connection nor the protected set; it
\* returns the flag.
C8_StatusReadsArePure ==
  [][ ( nOps' # nOps /\ call'.kind \in { "get_status", "is_connected" } )
      => /\ audit' = audit
         /\ connected' = connected
         /\ connection' = connection
         /\ protected_groups' = protected_groups
         /\ call'.ret.ok = connected ]_vars

C8_Witness ==
  /\ call.kind = "get_status"
  /\ connected
  /\ call.ret.msg = "Connected"
  /\ Len(audit) > 0

\* Status labels on_connect and on_domain_changed show after a failure.
FailureLabels ==
  { "Status: Connection failed", "Status: Authentication failed",
    "Status: Server unreachable", "Status: Connection error",
    "Status: Disconnected (Error)" }

\* The session state the process is in, read off the stored state.
Session ==
  IF program = "main"
  THEN IF win.connection = "bound" THEN "Connected"
       ELSE IF win.status_label \in FailureLabels THEN "Failed"
       ELSE "Disconnected"
  ELSE IF connected THEN "Connected" ELSE "Disconnected"

AllowedTransition(a, b) ==
  \/ a = b
  \/ << a, b >> \in { << "Disconnected", "Connecting" >>,
                      << "Connecting", "Connected" >>,
                      << "Connected", "Disconnected" >> }
  \/ b = "Failed"

\* C9 as stated: the session moves only along Disconnected -> Connecting ->
\* Connected, Connected -> Disconnected and any -> Failed.
C9_OnlySpecTransitions == [][ AllowedTransition(Session, Session') ]_vars

\* C9 as amended: the session becomes Connected only by a connect call (in
\* MainWindow one whose bind answered bound), and stops being Connected only
\* by a disconnect that called unbind; LDAPClient never leaves Connected.
C9_ConnectedOnlyByConnect ==
  [][ /\ connected' # connected
         => ( call'.kind = "connect" /\ call'.returned /\ call'.ret.ok /\ connected' )
      /\ ( win'.connection = "bound" /\ win.connection # "bound" )
         => ( hcall'.kind = "on_connect" /\ hcall'.binds = 1 /\ hcall'.bind = "bound" )
      /\ ( win.connection = "bound" /\ win'.connection # "bound" )
         => ( hcall'.kind \in { "on_connect", "on_domain_changed" }
              /\ hcall'.unbinds = 1 ) ]_vars

C9_Witness ==
  /\ hcall.kind = "on_connect"
  /\ hcall.outcome = "disconnected"
  /\ hcall.held = "bound"
  /\ win.connection = "None"

\* The records logged while the client was constructed.
InitEvents == SelectSeq(audit, LAMBDA e : e.action = "init")

\* C10 as stated: a missing sensitive_groups.json gives an empty protected
\* set and exactly one log record, at warning level, and no confirmation is
\* ever requested.
C10_MissingFileWarning ==
  ( program = "ldapclient" /\ file.kind = "missing" )
  => /\ protected_groups = PyList({})
     /\ Len(InitEvents) = 1
     /\ InitEvents[1].level = "WARNING"
     /\ call.prompts = 0
     /\ pc = "idle"

\* C10 as amended: the one record is at error level, with status failure.
C10_MissingFileError ==
  ( program = "ldapclient" /\ file.kind = "missing" )
  => /\ protected_groups = PyList({})
     /\ Len(InitEvents) = 1
     /\ InitEvents[1].level = "ERROR"
     /\ InitEvents[1].status = "failure"
     /\ call.prompts = 0
     /\ pc = "idle"

C10_Witness ==
  /\ file.kind = "missing"
  /\ call.kind = "add"
  /\ call.group = "G"
  /\ call.returned
  /\ call.ret.ok

\* The ways sensitive_groups.json can be present and bad.
BadFileKinds ==
  { "bad_json", "top_level_list", "null_value", "dict_value", "other_error" }

\* C11: whenever sensitive_groups.json is bad (invalid JSON, JSON of the
\* wrong shape, any other load error) the client is constructed with an
\* empty protected set and exactly one record logged at construction, and no
\* add_user_to_group call ever prompts or raises.
C11_BadSourceDegrades ==
  ( program = "ldapclient" /\ file.kind \in BadFileKinds )
  => /\ protected_groups = PyList({})
     /\ Len(InitEvents) = 1
     /\ call.prompts = 0
     /\ pc = "idle"
     /\ call.raised = "-"

\* C12: no LDAPClient operation changes the protected set after
\* construction, and whether an add_user_to_group call asks for confirmation
\* depends only on its group and the set loaded at construction.
C12_ProtectedSetFixed ==
  [][ /\ protected_groups' = protected_groups
      /\ protected_groups = LoadProtected(file).groups
      /\ ( nOps' # nOps /\ call'.kind = "add" /\ call'.raised = "-" )
         => ( call'.prompts = 1
              <=> call'.group \in LoadProtected(file).groups.items ) ]_vars

C12_Witness ==
  /\ program = "ldapclient"
  /\ protected_groups = PyList({ "G" })
  /\ connected
  /\ call.kind = "add"
  /\ call.group = "G"
  /\ call.prompts = 1
  /\ CountStatus(audit, { "pending_confirmation" }) >= 2

\* How a handler call that took a disconnect path ended.
DisconnectOutcomes == { "disconnected", "disconnect_error", "selected" }

C14_ConnectWhileConnected ==
  /\ ( call.kind = "connect" /\ call.returned /\ call.wasConnected )
     => ( connected /\ call.binds = 0 )
  /\ ( hcall.kind = "on_connect" /\ hcall.held = "bound" )
     => /\ win.connection = "bound"
        /\ \/ hcall.unbinds = 0 /\ hcall.binds = 0
           \/ hcall.unbinds = 1 /\ hcall.binds = 1

\* C14 as amended: LDAPClient.connect while Connected returns success without
\* a bind and stays Connected; MainWindow.on_connect while a bound
\* connection is held is the disconnect half of a toggle: it unbinds once,
\* never binds, and after a clean unbind holds no connection.
C14_ConnectToggles ==
  /\ ( call.kind = "connect" /\ call.returned /\ call.wasConnected )
     => ( connected /\ call.ret.ok /\ call.binds = 0 )
  /\ ( hcall.kind = "on_connect" /\ hcall.held = "bound" )
     => /\ hcall.unbinds = 1
        /\ hcall.binds = 0
        /\ hcall.outcome \in { "disconnected", "disconnect_error" }
        /\ hcall.outcome = "disconnected"
           => ( win.connection = "None" /\ win.status_label = "Status: Disconnected" )

C14_Witness ==
  /\ hcall.kind = "on_connect"
  /\ hcall.held = "bound"
  /\ hcall.binds = 0
  /\ win.status_label = "Status: Disconnected"

\* The failure kinds the specification names, per cause.
SpecificFailure ==
  [ LDAPBindError |-> "Authentication failed",
    LDAPSocketOpenError |-> "Server unreachable" ]

\* The same kinds as MainWindow's status label shows them.
SpecificLabel ==
  [ LDAPBindError |-> "Status: Authentication failed",
    LDAPSocketOpenError |-> "Status: Server unreachable" ]

\* C15: a connect whose bind fails is reported as a failure of the kind that
\* matches the cause (bind error: authentication failed; socket open error:
\* server unreachable; anything else: a generic failure), and leaves no
\* connection held and the session not Connected.
C15_FailedConnectReported ==
  /\ ( call.kind = "connect" /\ call.returned /\ call.bind # "bound" )
     => /\ ~call.ret.ok
        /\ call.bind \in DOMAIN SpecificFailure
           => call.ret.msg = SpecificFailure[call.bind]
        /\ ~connected
        /\ connection = "None"
  /\ ( hcall.kind = "on_connect" /\ hcall.binds = 1 /\ hcall.bind # "bound" )
     => /\ hcall.outcome # "connected"
        /\ hcall.bind \in DOMAIN SpecificFailure
           => win.status_label = SpecificLabel[hcall.bind]
        /\ win.status_label \in FailureLabels
        /\ win.connection = "None"

\* C16: after a successful connect the window holds the bound connection,
\* the search controls are enabled and the connect button reads Disconnect;
\* after a failed connect the search controls are disabled and the button
\* reads Connect.
C16_ConnectUpdatesWindow ==
  /\ ( hcall.kind = "on_connect" /\ hcall.outcome = "connected" )
     => /\ win.connection = "bound"
        /\ win.search_enabled
        /\ win.connect_btn = "Disconnect"
  /\ ( hcall.kind = "on_connect" /\ hcall.binds = 1 /\ hcall.outcome # "connected" )
     => /\ ~win.search_enabled
        /\ win.connect_btn = "Connect"

\* C17: the search controls and the add-to-group button are enabled only
\* while the window holds a bound connection.
C17_ControlsOnlyWhileConnected ==
  program = "main"
  => ( ( win.search_enabled \/ win.add_group_btn ) => win.connection = "bound" )

\* C18: after a change of domain controller the window holds no connection,
\* the search and add-to-group controls are disabled and the status reads
\* 'Status: Disconnected'.
C18_DomainChangeDisconnects ==
  hcall.kind = "on_domain_changed"
  => /\ win.connection = "None"
     /\ ~win.search_enabled
     /\ ~win.add_group_btn
     /\ win.status_label = "Status: Disconnected"

\* Outcomes of on_add_to_group that end before the request is formed.
NothingToAdd == { "no selection", "Configuration Error" }

\* C19: an add-user-to-group made while connected issues exactly one modify;
\* it succeeds exactly when the directory answers success, and otherwise
\* ends as a failure that carries the directory's answer and records a
\* failure event.
C19_OneModifyPerAddition ==
  /\ ( call.kind = "add" /\ call.returned /\ call.wasConnected
       /\ call.ret # CancelRet )
     => /\ call.modifies = 1
        /\ call.ret.ok <=> call.modify = "success"
        /\ call.modify # "success"
           => CountStatus(CallEvents, { "failure" }) = 1
  /\ ( hcall.kind = "on_add_to_group" /\ hcall.held = "bound"
       /\ hcall.outcome \notin NothingToAdd )
     => /\ hcall.modifies = 1
        /\ hcall.outcome = "Success" <=> hcall.modify = "success"
        /\ hcall.modify # "success"
           => /\ logged[Len(logged)].level = "ERROR"
              /\ logged[Len(logged)].detail = hcall.modify

C21_NothingEscapes ==
  /\ ( call.kind \in { "connect", "add" } /\ pc = "idle" )
     => ( call.returned /\ call.raised = "-" )
  /\ hcall.kind \in { "on_connect", "on_add_to_group" } => hcall.outcome # "-"

\* Event k of thread t has been written to the stream of handler h.
Delivered(h, t, k) ==
  \E i \in DOMAIN sink[h] : sink[h][i] = [ t |-> t, n |-> k, part |-> "tail" ]

\* C22: a record handed to the logger reaches every stream whose writes
\* succeed, whether or not the other stream fails, and a failing stream
\* never ends the call that logged: each log_info call that has returned
\* has delivered its record to each working stream.
C22_SinksIndependent ==
  \A t \in Threads :
    /\ ~th[t].raised
    /\ \A h \in HandlerNames :
         sink_ok[h] => \A k \in 1..th[t].n : Delivered(h, t, k)

C22_Witness ==
  /\ ~sink_ok["file"]
  /\ sink_ok["console"]
  /\ th["t1"].called
  /\ th["t1"].pc = "idle"
  /\ th["t1"].n >= 2
  /\ Delivered("console", "t1", 2)
  /\ sink["file"] = <<>>

\* C23: in each stream every record is one whole line, never mixed with
\* parts of another record, and the records of one call appear in the order
\* the call logged them.
C23_WholeLines ==
  \A h \in HandlerNames :
    LET s == sink[h] IN
      /\ \A i \in DOMAIN s :
           s[i].part = "tail" => ( i > 1 /\ s[i - 1] = [ s[i] EXCEPT !.part = "head" ] )
      /\ \A i \in DOMAIN s :
           ( s[i].part = "head" /\ i < Len(s) )
           => s[i + 1] = [ s[i] EXCEPT !.part = "tail" ]
      /\ \A i, j \in DOMAIN s :
           ( i < j /\ s[i].t = s[j].t ) => s[i].n <= s[j].n

C23_Witness ==
  \E i, j, k \in DOMAIN sink["file"] :
    /\ i < j
    /\ j < k
    /\ sink["file"][i].t = "t1"
    /\ sink["file"][j].t = "t2"
    /\ sink["file"][k].t = "t1"
    /\ lock["file"] = "t2"
    /\ th["t1"].pc \in LogPcs

\* C24: two calls of connect / add_user_to_group on one client never
\* overlap: no two threads are inside a call on the same client at once.
C24_CallsSerialized ==
  \A t, u \in Threads :
    ( t # u /\ th[t].pc # "idle" /\ th[u].pc # "idle" )
    => th[t].client # th[u].client

\* A step of a call a thread is in.
HostStep(u) ==
  HostSetConnected(u) \/ HostTest(u) \/ EmitBegin(u) \/ EmitEnd(u)

\* C25: a thread suspended in input() holds no handler lock, and every
\* other thread can go on: start its call, or take the next step of the
\* call it is in.
C25_PromptBlocksOnlyCaller ==
  \A t \in Threads :
    th[t].pc = "a_input"
    => /\ \A h \in HandlerNames : lock[h] # t
       /\ \A u \in Threads \ { t } :
            /\ ~th[u].called => ENABLED HostConnect(u, "c2")
            /\ ( th[u].pc \notin { "idle", "a_input" } ) => ENABLED HostStep(u)

C25_Witness ==
  /\ th["t1"].pc = "a_input"
  /\ th["t1"].client = "c1"
  /\ th["t2"].called
  /\ th["t2"].pc = "idle"
  /\ th["t2"].client = "c2"
  /\ th["t2"].n >= 2
  /\ \E i, j \in DOMAIN sink["file"] :
       /\ i < j
       /\ sink["file"][i] = [ t |-> "t1", n |-> 2, part |-> "tail" ]
       /\ sink["file"][j] = [ t |-> "t2", n |-> 1, part |-> "head" ]

\* C26: a connect with an empty target is rejected: it makes no bind, does
\* not succeed and does not make the session Connected.
C26_EmptyTargetRejected ==
  /\ ( call.kind = "connect" /\ call.returned /\ call.target = "" )
     => /\ ~call.ret.ok
        /\ call.binds = 0
        /\ ~call.wasConnected => ~connected
  /\ ( hcall.kind = "on_connect" /\ hcall.held # "bound" /\ hcall.domain = "" )
     => /\ hcall.outcome = "Input Error"
        /\ hcall.binds = 0
        /\ win.connection # "bound"

\* Outcomes of on_connect and on_add_to_group that report a failed
\* directory call.
DirectoryFailures ==
  { "Connection Failed", "Authentication Failed", "Server Unreachable",
    "Connection Error", "Add to Group Error", "Add to Group Failed" }

\* C27: no call retries: a connect makes at most one bind attempt and an
\* add-user-to-group at most one modify, and a call whose directory call
\* failed ends as that failure.
C27_NoRetries ==
  /\ call.binds <= 1
  /\ call.modifies <= 1
  /\ hcall.binds <= 1
  /\ hcall.modifies <= 1
  /\ ( hcall.binds >= 1 /\ hcall.bind # "bound" ) => hcall.outcome \in DirectoryFailures
  /\ ( hcall.modifies >= 1 /\ hcall.modify # "success" )
     => hcall.outcome \in DirectoryFailures

C27_Witness ==
  /\ hcall.kind = "on_connect"
  /\ hcall.bind = "LDAPSocketOpenError"
  /\ hcall.binds = 1
  /\ hcall.outcome = "Server Unreachable"
  /\ win.connection = "None"

AuditStatuses == { "success", "failure", "pending_confirmation", "cancelled" }

\* C28 as stated: every record in the audit trail, those of the
\* construction included, has an action among connect, addtogroup, status
\* and a status among success, failure, pending_confirmation, cancelled.
C28_EventFieldsInEnums ==
  \A i \in DOMAIN audit :
    /\ audit[i].action \in { "connect", "addtogroup", "status" }
    /\ audit[i].status \in AuditStatuses

\* C28 as amended: the actions recorded are connect, addtogroup and init;
\* init is the action of the failure records of the construction, and no
\* record has the action status.
C28_EventFieldsAsLogged ==
  \A i \in DOMAIN audit :
    /\ audit[i].action \in { "connect", "addtogroup", "init" }
    /\ audit[i].status \in AuditStatuses
    /\ audit[i].action = "init" => ( audit[i].status = "failure" /\ i = 1 )

C28_Witness ==
  /\ file.kind = "bad_json"
  /\ Len(audit) >= 3
  /\ audit[1].action = "init"
  /\ \E i \in DOMAIN audit : audit[i].action = "connect"
  /\ \E i \in DOMAIN audit : audit[i].action = "addtogroup"

\* s is an initial part of t.
IsPrefix(s, t) == Len(s) <= Len(t) /\ SubSeq(t, 1, Len(s)) = s

\* C29: the audit trail only grows: every step leaves what was recorded
\* before in place, unchanged and in the same order, in the trail of
\* LDAPClient's records and in each handler's stream.
C29_AppendOnly ==
  [][ /\ IsPrefix(audit, audit')
      /\ \A h \in HandlerNames : IsPrefix(sink[h], sink'[h]) ]_vars

C29_Witness ==
  /\ Len(sink["file"]) >= 6
  /\ sink["file"][1].t # sink["file"][3].t
  /\ sink["file"][5].t = sink["file"][1].t

\* C30: an add_user_to_group call records a pending_confirmation event
\* exactly when its group is in the protected set, and then just one.
C30_PendingIffProtected ==
  call.kind = "add"
  => CountStatus(CallEvents, { "pending_confirmation" })
       = IF call.wasProtected THEN 1 ELSE 0

C30_Witness ==
  /\ call.kind = "add"
  /\ call.wasProtected
  /\ call.returned
  /\ call.answer = << "n" >>
  /\ CountStatus(CallEvents, { "pending_confirmation" }) = 1
  /\ CountStatus(audit, { "pending_confirmation" }) = 1
  /\ connected

\* C31 as stated: on_search and on_add_to_group make no directory call
\* unless a bound connection is held; when none is held they report
\* 'Not connected' and leave the connection as it was.
C31_NotConnectedReported ==
  ( hcall.kind \in { "on_search", "on_add_to_group" } /\ hcall.held # "bound" )
  => /\ hcall.searches = 0
     /\ hcall.modifies = 0
     /\ hcall.outcome = "Not Connected"
     /\ win.status_label = "Status: Not connected"
     /\ win.connection = hcall.held

\* C31 as amended: without a bound connection neither handler makes a
\* directory call or changes the connection; on_search reports 'Not
\* connected', and on_add_to_group does so unless it has returned earlier
\* because nothing is selected or no target group is configured.
C31_NoCallUnlessBound ==
  /\ ( hcall.searches >= 1 \/ hcall.modifies >= 1 ) => hcall.held = "bound"
  /\ ( hcall.kind \in { "on_search", "on_add_to_group" } /\ hcall.held # "bound" )
     => /\ hcall.searches = 0
        /\ hcall.modifies = 0
        /\ win.connection = hcall.held
        /\ hcall.outcome \in { "Not Connected", "no selection", "Configuration Error" }
        /\ hcall.outcome = "Not Connected" => win.status_label = "Status: Not connected"
        /\ hcall.kind = "on_search" => hcall.outcome = "Not Connected"
        /\ hcall.outcome = "no selection" => win.selected = 0
        /\ hcall.outcome = "Configuration Error" => win.target_group_dn = ""

C31_Witness ==
  /\ hcall.kind = "on_add_to_group"
  /\ hcall.held = "None"
  /\ hcall.outcome = "Configuration Error"
  /\ win.add_group_btn
  /\ win.selected # 0

\* C32: the confirmation prompt of add_user_to_group is default-deny. Once the
\* prompt has been answered the call has returned, and it returned the
\* success of an addition (with the addition's audit record written) exactly
\* when the answer, trimmed and lower-cased, is "y"; for every other answer,
\* the empty one included, it returned "Operation cancelled by user", its
\* last audit record is the "cancelled" one and no addition was recorded.
C32_DefaultDeny ==
  ( program = "ldapclient" /\ call.kind = "add" /\ call.prompts = 1 /\ call.returned )
  => IF call.answer \in ApprovingAnswers
     THEN /\ call.ret = AddRet
          /\ AdditionReached
     ELSE /\ call.ret = CancelRet
          /\ ~AdditionReached
          /\ audit[Len(audit)].status = "cancelled"
          /\ audit[Len(audit)].message = "Operation cancelled by user"

\* The prompt of a protected group was answered with an empty line and the
\* call was cancelled.
C32_Witness ==
  /\ program = "ldapclient"
  /\ call.kind = "add" /\ call.prompts = 1 /\ call.returned
  /\ call.answer = <<>>
  /\ call.ret = CancelRet
  /\ ~AdditionReached

\* C33: the add-to-group button is enabled only while the selected list item
\* carries the DN of a found entry, and on_add_to_group sends a modify only
\* for such an item, never for a placeholder item ('No users found.',
\* 'Please enter a search query'), whose DN is None.
C33_OnlyFoundDN ==
  program = "main"
  => /\ win.add_group_btn
          => /\ win.selected \in DOMAIN win.results
             /\ win.results[win.selected].dn # "None"
     /\ ( hcall.kind = "on_add_to_group" /\ hcall.modifies > 0 )
          => /\ win.selected \in DOMAIN win.results
             /\ win.results[win.selected].dn # "None"

\* C34: adding a user to a group never changes the session. Every step of
\* LDAPClient.add_user_to_group (its start, the answer to its prompt, its
\* prompt raising) leaves the connected flag and the stored connection as
\* they were, and every run of MainWindow.on_add_to_group, whatever its
\* outcome, leaves the window's stored connection and its bound state as
\* they were.
C34_AddKeepsSession ==
  [][ /\ ( program = "ldapclient" /\ call'.kind = "add" )
           => /\ connected' = connected
              /\ connection' = connection
              /\ call'.wasConnected = connected
      /\ ( program = "main" /\ hcall'.kind = "on_add_to_group" )
           => /\ win'.connection = win.connection
              /\ hcall'.held = win.connection
    ]_vars

\* A connected client's addition to a protected group was cancelled at the
\* prompt and the client is still connected.
C34_Witness ==
  /\ program = "ldapclient"
  /\ call.kind = "add" /\ call.wasConnected /\ call.prompts = 1
  /\ call.returned /\ call.ret = CancelRet
  /\ connected

\* C35: in LDAPClient the connected flag is false from construction until the
\* first connect call has returned success, and from then on it stays true:
\* no step of any operation of the class resets it, and is_connected()
\* returns the flag, so it returns true after every later sequence of
\* operations.
C35_ConnectedSticky ==
  /\ [] ( program = "ldapclient"
          => /\ connected
                  <=> \E i \in DOMAIN audit :
                        /\ audit[i].action = "connect"
                        /\ audit[i].status = "success"
             /\ ( call.kind = "is_connected" /\ call.returned )
                  => call.ret.ok = connected )
  /\ [][ connected => connected' ]_vars

\* is_connected() returned true after a connect followed by an addition.
C35_Witness ==
  /\ program = "ldapclient"
  /\ call.kind = "is_connected" /\ call.returned /\ call.ret.ok
  /\ nOps >= 3
  /\ \E i \in DOMAIN audit : audit[i].action = "addtogroup"

====
